---- MODULE Spec2Model ----
(***************************************************************************)
(* A model of the RPC marshaling layer of monero-rpc-rs (src/src/lib.rs):  *)
(* the lazy parameter builder (RpcParams), the transport caller            *)
(* (RemoteCaller::call), the generic typed request (CallerWrapper::request)*)
(* and the typed daemon and wallet methods built on them.                  *)
(*                                                                         *)
(* A typed method is an async fn with one suspension point, the HTTP       *)
(* exchange.  Its first half (build the parameters, build the MethodCall   *)
(* with a new id, POST it) is one action per method; its second half       *)
(* (read the response, convert, decode, post-process, return) is Respond.  *)
(***************************************************************************)
EXTENDS Integers, Sequences, FiniteSets, TLC

(***************************************************************************)
(* Bounds of the model.                                                    *)
(***************************************************************************)
\* u64 is modelled Width bits wide: heights range over 0 .. 2^Width - 1.
Width == 4
\* Number of callers sharing the one client in the concurrent specification.
NumCallers == 2
\* Number of calls made on the client in one behaviour.
MaxCalls == 2
\* u16 is modelled VersionHalf bits wide and u32 twice that: get_version
\* shifts by one half (16 in the source).
VersionHalf == 3

U64_MAX == 2 ^ Width - 1
U64 == 0 .. U64_MAX

U16_MAX == 2 ^ VersionHalf - 1
U32_MAX == 2 ^ (2 * VersionHalf) - 1
U32 == 0 .. U32_MAX

(***************************************************************************)
(* serde_json::Value, by kind.  Strings, arrays and objects are opaque.    *)
(***************************************************************************)
Null == [t |-> "null", n |-> 0]
Num(n) == [t |-> "number", n |-> n]
Bool(b) == [t |-> "bool", n |-> IF b THEN 1 ELSE 0]
Str == [t |-> "string", n |-> 0]
Arr == [t |-> "array", n |-> 0]
Obj == [t |-> "object", n |-> 0]

(***************************************************************************)
(* Option<T>.                                                              *)
(***************************************************************************)
None == [some |-> FALSE, v |-> 0]
Some(x) == [some |-> TRUE, v |-> x]
OptU64 == {None, Some(0)}
OptStr == {None, Some(1)}

(***************************************************************************)
(* std::iter: empty(), once(x), a.chain(b), and an Option used as an       *)
(* iterator (Option::map(f) chained: yields f(v) if Some, nothing if None).*)
(***************************************************************************)
empty == << >>
once(x) == << x >>
chain(a, b) == a \o b

\* Variants that yield a null placeholder for an absent option.
opt_null(o, key, val) == IF o.some THEN << <<key, val>> >> ELSE << <<key, Null>> >>
opt_pair(o, key, val) == IF o.some THEN << <<key, val>> >> ELSE << >>
opt_item_null(o, val) == IF o.some THEN << val >> ELSE << Null >>
\* Option::map(f) chained into a named or a positional parameter sequence.
opt_item(o, val) == IF o.some THEN << val >> ELSE << >>

(***************************************************************************)
(* enum RpcParams and its constructors.  items is what the boxed iterator  *)
(* yields, in order.                                                       *)
(***************************************************************************)
RpcParams_None == [kind |-> "None", items |-> << >>]
array(v) == [kind |-> "Array", items |-> v]
map(v) == [kind |-> "Map", items |-> v]

Range(f) == {f[i] : i \in DOMAIN f}
Keys(items) == {items[i][1] : i \in DOMAIN items}
\* collect() into a JSON object: one entry per key, a later pair replacing
\* an earlier one with the same key.
Last(items, k) == items[CHOOSE i \in DOMAIN items : /\ items[i][1] = k
                                                    /\ \A j \in DOMAIN items : items[j][1] = k => j <= i][2]
collect_map(items) == [k \in Keys(items) |-> Last(items, k)]

\* impl From<RpcParams> for Params
Params_from(value) ==
    CASE value.kind = "Map" -> [kind |-> "Map", map |-> collect_map(value.items), array |-> << >>]
      [] value.kind = "Array" -> [kind |-> "Array", map |-> << >>, array |-> value.items]
      [] value.kind = "None" -> [kind |-> "None", map |-> << >>, array |-> << >>]

(***************************************************************************)
(* std::ops::Bound<u64> and the height range of GetTransfersSelector.      *)
(***************************************************************************)
Unbounded == [kind |-> "Unbounded", b |-> 0]
Included(b) == [kind |-> "Included", b |-> b]
Excluded(b) == [kind |-> "Excluded", b |-> b]
Bounds == {Unbounded} \cup {Included(b) : b \in U64} \cup {Excluded(b) : b \in U64}
HeightRanges == [start : Bounds, end : Bounds]

\* u64 `b - 1`: with overflow checks (a debug build) 0 - 1 panics, without
\* them (a release build) it wraps to u64::MAX.
sub_one(b, overflow_checks) ==
    IF b >= 1 THEN [panic |-> FALSE, v |-> b - 1]
    ELSE IF overflow_checks THEN [panic |-> TRUE, v |-> 0]
    ELSE [panic |-> FALSE, v |-> (b - 1) % (2 ^ Width)]

\* match range.start_bound() { .. }: the Option that becomes "min_height".
start_bound_min(start, overflow_checks) ==
    CASE start.kind = "Included" ->
            [panic |-> sub_one(start.b, overflow_checks).panic,
             opt |-> Some(sub_one(start.b, overflow_checks).v)]
      [] start.kind = "Excluded" -> [panic |-> FALSE, opt |-> Some(start.b)]
      [] start.kind = "Unbounded" -> [panic |-> FALSE, opt |-> None]

\* A variant that subtracts without saturating.
end_bound_max_wrapping(end) ==
    CASE end.kind = "Included" -> Some(end.b)
      [] end.kind = "Excluded" -> Some((end.b - 1) % (2 ^ Width))
      [] end.kind = "Unbounded" -> None
\* match range.end_bound() { .. }: the Option that becomes "max_height";
\* b.checked_sub(1).unwrap_or(0) saturates at 0.
end_bound_max(end) ==
    CASE end.kind = "Included" -> Some(end.b)
      [] end.kind = "Excluded" -> Some(IF end.b >= 1 THEN end.b - 1 ELSE 0)
      [] end.kind = "Unbounded" -> None

\* A variant that sets the flag only when a bound is emitted.
height_filter_flag_if_bounded(range, overflow_checks) ==
    chain(chain(IF range.start.kind = "Unbounded" /\ range.end.kind = "Unbounded"
                THEN empty ELSE once(<<"filter_by_height", Bool(TRUE)>>),
                opt_pair(start_bound_min(range.start, overflow_checks).opt, "min_height",
                         Num(start_bound_min(range.start, overflow_checks).opt.v))),
          opt_pair(end_bound_max(range.end), "max_height", Num(end_bound_max(range.end).v)))
\* filter_by_height.map(|range| { .. }): the pairs one range yields.
height_filter(range, overflow_checks) ==
    chain(chain(once(<<"filter_by_height", Bool(TRUE)>>),
                opt_pair(start_bound_min(range.start, overflow_checks).opt, "min_height",
                         Num(start_bound_min(range.start, overflow_checks).opt.v))),
          opt_pair(end_bound_max(range.end), "max_height", Num(end_bound_max(range.end).v)))

(***************************************************************************)
(* The node's side of one HTTP exchange, as RemoteCaller::call sees it:    *)
(* the connection fails, or a response arrives with an HTTP status and a   *)
(* body that is no JSON-RPC response ("garbage"), a JSON-RPC success       *)
(* carrying a result, or a JSON-RPC failure carrying an error code.        *)
(* A result is described by its "status" field and by whether it has the   *)
(* shape the method's response type expects.                               *)
(***************************************************************************)
NodeResults == [status : {"OK", "BUSY"}, wellformed : BOOLEAN, version : {0}]
NoResult == [status |-> "OK", wellformed |-> FALSE, version |-> 0]
ErrorCodes == {-8, -1, -32603}
Bodies == {[parse |-> "garbage", result |-> NoResult, code |-> 0]}
            \cup {[parse |-> "success", result |-> r, code |-> 0] : r \in NodeResults}
            \cup {[parse |-> "failure", result |-> NoResult, code |-> e] : e \in ErrorCodes}
ConnFail == [kind |-> "ConnFail", status |-> 0, body |-> [parse |-> "garbage", result |-> NoResult, code |-> 0]]
Response(status, body) == [kind |-> "Response", status |-> status, body |-> body]
HttpStatuses == {200, 500}
Https == {ConnFail} \cup {Response(s, b) : s \in HttpStatuses, b \in Bodies}
\* The responses to get_version that carry a version: every u32.
VersionHttps ==
    {Response(200, [parse |-> "success",
                    result |-> [status |-> "OK", wellformed |-> TRUE, version |-> v],
                    code |-> 0]) : v \in U32}

\* jsonrpc_core::ErrorCode: the variant an integer code deserializes to.
ErrorCode_from(code) ==
    CASE code = -32700 -> [variant |-> "ParseError", code |-> code]
      [] code = -32600 -> [variant |-> "InvalidRequest", code |-> code]
      [] code = -32601 -> [variant |-> "MethodNotFound", code |-> code]
      [] code = -32602 -> [variant |-> "InvalidParams", code |-> code]
      [] code = -32603 -> [variant |-> "InternalError", code |-> code]
      [] OTHER -> [variant |-> "ServerError", code |-> code]
ServerError(code) == [variant |-> "ServerError", code |-> code]

(***************************************************************************)
(* anyhow::Result<jsonrpc_core::Result<Value>>, the value of               *)
(* JsonRpcCaller::call.                                                    *)
(***************************************************************************)
RemoteErr == [outer |-> "Err", inner |-> "-", value |-> NoResult, code |-> 0]
RemoteOkOk(v) == [outer |-> "Ok", inner |-> "Ok", value |-> v, code |-> 0]
RemoteOkErr(code) == [outer |-> "Ok", inner |-> "Err", value |-> NoResult, code |-> code]

\* RemoteCaller::call after the POST: send().await? fails on a connection
\* failure only (the HTTP status is not looked at), json::<Output>().await?
\* fails on a body that is no JSON-RPC response.
call_recv(http) ==
    IF http.kind = "ConnFail" THEN RemoteErr
    ELSE IF http.body.parse = "garbage" THEN RemoteErr
    ELSE IF http.body.parse = "success" THEN RemoteOkOk(http.body.result)
    ELSE RemoteOkErr(http.body.code)

(***************************************************************************)
(* anyhow::Result<T>, the value of a typed method.  An error is named by   *)
(* the type anyhow wraps: reqwest::Error ("TransportError"),               *)
(* jsonrpc_core::Error ("RpcError", with its code), serde_json::Error      *)
(* ("DecodeError"), a non-success envelope status ("BadStatus").           *)
(***************************************************************************)
Ok(v) == [ok |-> TRUE, value |-> v, err |-> "-", code |-> 0, major |-> 0, minor |-> 0]
Err(e, code) == [ok |-> FALSE, value |-> "-", err |-> e, code |-> code, major |-> 0, minor |-> 0]
NoReturn == [ok |-> FALSE, value |-> "-", err |-> "-", code |-> 0, major |-> 0, minor |-> 0]
\* Ok((major, minor)), the value of get_version.
Ok_version(major, minor) ==
    [ok |-> TRUE, value |-> "version", err |-> "-", code |-> 0, major |-> major, minor |-> minor]

\* MoneroResult<T>: deserializing the envelope and into_inner().
MoneroResult_into_inner(v) ==
    IF v.status # "OK" THEN Err("BadStatus", 0)
    ELSE IF v.wellformed THEN Ok("value")
    ELSE Err("DecodeError", 0)

\* serde_json::from_value::<T>(v) for the response type T of a method.
from_value(T, v) ==
    CASE T = "IgnoredAny" -> Ok("unit")
      [] T = "MoneroResult" -> MoneroResult_into_inner(v)
      [] OTHER -> IF v.wellformed THEN Ok("value") ELSE Err("DecodeError", 0)

\* CallerWrapper::request after the call: c.await?? then from_value.
request(T, remote) ==
    IF remote.outer = "Err" THEN Err("TransportError", 0)
    ELSE IF remote.inner = "Err" THEN Err("RpcError", remote.code)
    ELSE from_value(T, remote.value)

\* u32 >>, <<, - and u16::try_from.
shr(v, n) == v \div 2 ^ n
shl(v, n) == (v * 2 ^ n) % (U32_MAX + 1)
u32_sub(a, b) == (a - b) % (U32_MAX + 1)
u16_try_from(x) == [ok |-> x <= U16_MAX, v |-> x]

\* A variant that takes the minor part without shifting the major part back.
get_version_split_unshifted(v) ==
    LET major == shr(v, VersionHalf)
        minor == u32_sub(v, major)
    IN  IF u16_try_from(major).ok /\ u16_try_from(minor).ok
        THEN Ok_version(major, minor)
        ELSE Err("TryFromIntError", 0)
\* WalletClient::get_version after the request: the split of version.version.
get_version_split(v) ==
    LET major == shr(v, VersionHalf)
        minor == u32_sub(v, shl(major, VersionHalf))
    IN  IF u16_try_from(major).ok /\ u16_try_from(minor).ok
        THEN Ok_version(major, minor)
        ELSE Err("TryFromIntError", 0)
\* WalletClient::get_version after the call.
get_version_ret(remote) ==
    IF request("Version", remote).ok
    THEN get_version_split(remote.value.version)
    ELSE request("Version", remote)

\* A variant that takes every RPC error for "not found".
get_transfer_ret_any_code(remote) ==
    IF remote.outer = "Err" THEN Err("TransportError", 0)
    ELSE IF remote.inner = "Ok" THEN from_value("Rsp", remote.value)
    ELSE Ok("absent")
\* WalletClient::get_transfer after the call: the match on its result.
get_transfer_ret(remote) ==
    IF remote.outer = "Err" THEN Err("TransportError", 0)
    ELSE IF remote.inner = "Ok" THEN from_value("Rsp", remote.value)
    ELSE IF ErrorCode_from(remote.code) = ServerError(-8) THEN Ok("absent")
    ELSE Err("RpcError", remote.code)

(***************************************************************************)
(* enum TransferPriority and its wire codec: Serialize writes a u8,        *)
(* Deserialize reads a u8 and maps it back.                                *)
(***************************************************************************)
TransferPriorities == {"Default", "Unimportant", "Elevated", "Priority"}
\* u8::MAX
U8_MAX == 255
\* The integers a JSON number offered to the decoder may be.
WireInts == -1 .. U8_MAX + 1

\* impl Serialize for TransferPriority
TransferPriority_serialize(p) ==
    CASE p = "Default" -> 0
      [] p = "Unimportant" -> 1
      [] p = "Elevated" -> 2
      [] p = "Priority" -> 3

DecodedPriority(p) == [ok |-> TRUE, p |-> p]
DecodeFailed == [ok |-> FALSE, p |-> "-"]

\* A variant that clamps an unknown integer to the highest priority.
TransferPriority_deserialize_clamping(v) ==
    IF v < 0 \/ v > U8_MAX THEN DecodeFailed
    ELSE CASE v = 0 -> DecodedPriority("Default")
           [] v = 1 -> DecodedPriority("Unimportant")
           [] v = 2 -> DecodedPriority("Elevated")
           [] OTHER -> DecodedPriority("Priority")
\* impl Deserialize for TransferPriority: u8::deserialize fails outside
\* 0 ..= u8::MAX, then the match.
TransferPriority_deserialize(v) ==
    IF v < 0 \/ v > U8_MAX THEN DecodeFailed
    ELSE CASE v = 0 -> DecodedPriority("Default")
           [] v = 1 -> DecodedPriority("Unimportant")
           [] v = 2 -> DecodedPriority("Elevated")
           [] v = 3 -> DecodedPriority("Priority")
           [] OTHER -> DecodeFailed

NoCodec == [op |-> "none", p |-> "-", u8 |-> 0, out |-> DecodeFailed]

(***************************************************************************)
(* State.                                                                  *)
(*   client  the fields of the shared client (RemoteCaller)                *)
(*   calls   per caller, the typed method invocation it is in              *)
(*   wire    the ids of the requests POSTed so far, in order               *)
(*   codec   the last use of the TransferPriority codec                    *)
(*   preserve_order  whether the build enables serde_json's preserve_order *)
(*           feature (it is off unless a dependency turns it on)           *)
(***************************************************************************)
VARIABLES client, calls, wire, codec, preserve_order
vars == <<client, calls, wire, codec, preserve_order>>

\* The parameter names of all methods in the order of String's Ord.
KeyOrder ==
    <<"account_index", "address", "address_index", "amount_of_blocks",
      "destinations", "do_not_relay", "end_height", "export_raw",
      "filter_by_height", "get_tx_hex", "get_tx_key", "get_tx_metadata",
      "hash", "height", "in", "index", "key_type", "label", "max_height",
      "min_block_height", "min_height", "mixin", "out", "payment_id",
      "payment_ids", "priority", "ring_size", "signed_key_images",
      "start_height", "subaddr_indices", "tag", "tx_data_hex", "tx_key",
      "txid", "unlock_time", "unsigned_txset", "wallet_address">>
Yielded(items) == [i \in DOMAIN items |-> items[i][1]]
FirstAt(items) == SelectSeq([i \in DOMAIN items |-> i],
                           LAMBDA i : \A j \in 1 .. i - 1 : items[j][1] # items[i][1])
\* An insertion-ordered map (IndexMap): a key stays where it was first inserted.
insertion_order(items) == [n \in DOMAIN FirstAt(items) |-> items[FirstAt(items)[n]][1]]
\* A sorted map (BTreeMap): the keys in ascending order.
sorted_order(items) == SelectSeq(KeyOrder, LAMBDA k : k \in Keys(items))
\* The order in which the serde_json::Map of Params::Map holds, and
\* .json(&method_call) writes, the keys collected from items.
Map_keys(items) == IF preserve_order THEN insertion_order(items) ELSE sorted_order(items)

Callers == DOMAIN calls

IdleCall == [pc |-> "idle", fn |-> "-", args |-> << >>, params |-> RpcParams_None,
             method_call |-> [method |-> "-", params |-> Params_from(RpcParams_None),
                              keys |-> << >>, id |-> 0],
             rsp |-> "-", trips |-> 0, http |-> ConnFail, ret |-> NoReturn]

\* RpcClient::new
RpcClient_new == [addr |-> "http://node", http_client |-> "reqwest"]

Init ==
    /\ client = RpcClient_new
    /\ calls = [c \in {1} |-> IdleCall]
    /\ wire = << >>
    /\ codec = NoCodec
    /\ preserve_order = FALSE

InitConc ==
    /\ client = RpcClient_new
    /\ calls = [c \in 1 .. NumCallers |-> IdleCall]
    /\ wire = << >>
    /\ codec = NoCodec
    /\ preserve_order \in BOOLEAN

\* Uuid::new_v4(): a version-4 (random) UUID, modelled as a value that was
\* not issued before.
new_v4(issued) == CHOOSE u \in 1 .. Len(issued) + 1 : u \notin Range(issued)

\* A variant with one id per client instead of one per call.
MethodCall_id_of_client(issued) == 1
\* id: Id::Str(Uuid::new_v4().to_string()), evaluated in every call.
MethodCall_id(issued) == new_v4(issued)

\* The first half of a typed method on caller c: CallerWrapper::request
\* hands method and params to RemoteCaller::call, which builds the
\* MethodCall (params.into(), a new id) and POSTs it once to addr/json_rpc.
call_send(c, fn, args, method, params, rsp) ==
    /\ calls[c].pc = "idle"
    /\ Len(wire) < MaxCalls
    /\ calls' = [calls EXCEPT ![c] =
                   [IdleCall EXCEPT !.pc = "inflight", !.fn = fn, !.args = args,
                                    !.params = params,
                                    !.method_call = [method |-> method,
                                                     params |-> Params_from(params),
                                                     keys |-> IF params.kind = "Map"
                                                                THEN Map_keys(params.items)
                                                                ELSE << >>,
                                                     id |-> MethodCall_id(wire)],
                                    !.rsp = rsp, !.trips = calls[c].trips + 1]]
    /\ wire' = Append(wire, MethodCall_id(wire))
    /\ UNCHANGED <<client, codec, preserve_order>>

\* A typed method that panics while it builds its parameters: nothing is sent.
call_panic(c, fn, args) ==
    /\ calls[c].pc = "idle"
    /\ calls' = [calls EXCEPT ![c] = [IdleCall EXCEPT !.pc = "panicked", !.fn = fn, !.args = args]]
    /\ UNCHANGED <<client, wire, codec, preserve_order>>

(***************************************************************************)
(* DaemonClient and RegtestDaemonClient.  Mandatory arguments are opaque:  *)
(* only their JSON kind is kept.                                           *)
(***************************************************************************)
get_block_count(c) ==
    /\ calls[c].pc = "idle"
    /\ call_send(c, "get_block_count", << >>, "get_block_count", array(empty), "MoneroResult")

on_get_block_hash(c) ==
    /\ calls[c].pc = "idle"
    /\ call_send(c, "on_get_block_hash", << >>, "on_get_block_hash", array(once(Num(0))), "HashString")

get_block_template(c) ==
    /\ calls[c].pc = "idle"
    /\ call_send(c, "get_block_template", << >>, "get_block_template",
               array(chain(chain(empty, once(Str)), once(Num(0)))), "MoneroResult")

submit_block(c) ==
    /\ calls[c].pc = "idle"
    /\ call_send(c, "submit_block", << >>, "submit_block", array(once(Str)), "String")

GetBlockHeaderSelectors == {"Last", "Hash", "Height"}
get_block_header_request(selector) ==
    CASE selector = "Last" -> "get_last_block_header"
      [] selector = "Hash" -> "get_block_header_by_hash"
      [] selector = "Height" -> "get_block_header_by_height"
get_block_header_params(selector) ==
    CASE selector = "Last" -> RpcParams_None
      [] selector = "Hash" -> map(opt_pair(Some(0), "hash", Str))
      [] selector = "Height" -> map(opt_pair(Some(0), "height", Num(0)))
\* The response type is the bare Rsp: no MoneroResult envelope is decoded.
get_block_header(c, selectors) ==
    /\ calls[c].pc = "idle"
    /\ \E selector \in selectors :
         call_send(c, "get_block_header", [selector |-> selector],
              get_block_header_request(selector), get_block_header_params(selector), "Rsp")

get_block_headers_range(c) ==
    /\ calls[c].pc = "idle"
    /\ call_send(c, "get_block_headers_range", << >>, "get_block_headers_range",
               map(chain(chain(empty, once(<<"start_height", Num(0)>>)),
                         once(<<"end_height", Num(0)>>))),
               "MoneroResult")

generate_blocks(c) ==
    /\ calls[c].pc = "idle"
    /\ call_send(c, "generate_blocks", << >>, "generateblocks",
               map(chain(chain(empty, once(<<"amount_of_blocks", Num(0)>>)),
                         once(<<"wallet_address", Str>>))),
               "MoneroResult")

(***************************************************************************)
(* WalletClient.                                                           *)
(***************************************************************************)
get_balance(c, options) ==
    /\ calls[c].pc = "idle"
    /\ \E addresses \in options :
         call_send(c, "get_balance", [addresses |-> addresses], "get_balance",
              array(chain(chain(empty, once(Num(0))), opt_item(addresses, Arr))),
              "BalanceData")

get_address(c, options) ==
    /\ calls[c].pc = "idle"
    /\ \E addresses \in options :
         call_send(c, "get_address", [addresses |-> addresses], "get_address",
              map(chain(chain(empty, once(<<"account_index", Num(0)>>)),
                        opt_pair(addresses, "address_index", Arr))),
              "AddressData")

get_address_index(c) ==
    /\ calls[c].pc = "idle"
    /\ call_send(c, "get_address_index", << >>, "get_address_index",
               map(once(<<"address", Str>>)), "Rsp")

create_address(c, options) ==
    /\ calls[c].pc = "idle"
    /\ \E label \in options :
         call_send(c, "create_address", [label |-> label], "create_address",
              map(chain(chain(empty, once(<<"account_index", Num(0)>>)),
                        opt_pair(label, "label", Str))),
              "Rsp")

label_address(c) ==
    /\ calls[c].pc = "idle"
    /\ call_send(c, "label_address", << >>, "label_address",
               map(chain(chain(empty, once(<<"index", Obj>>)), once(<<"label", Str>>))),
               "IgnoredAny")

get_accounts(c, options) ==
    /\ calls[c].pc = "idle"
    /\ \E tag \in options :
         call_send(c, "get_accounts", [tag |-> tag], "get_accounts",
              map(chain(empty, opt_pair(tag, "tag", Str))), "GetAccountsData")

get_payments(c) ==
    /\ calls[c].pc = "idle"
    /\ call_send(c, "get_payments", << >>, "get_payments",
               map(chain(empty, once(<<"payment_id", Str>>))), "Vec<Payment>")

get_bulk_payments(c) ==
    /\ calls[c].pc = "idle"
    /\ call_send(c, "get_bulk_payments", << >>, "get_bulk_payments",
               map(chain(chain(empty, once(<<"payment_ids", Arr>>)),
                         once(<<"min_block_height", Num(0)>>))),
               "Rsp")

query_view_key(c) ==
    /\ calls[c].pc = "idle"
    /\ call_send(c, "query_view_key", << >>, "query_key",
               map(chain(empty, once(<<"key_type", Str>>))), "Rsp")

get_height(c) ==
    /\ calls[c].pc = "idle"
    /\ call_send(c, "get_height", << >>, "get_height", RpcParams_None, "Rsp")

TransferOptions == [account_index : OptU64, subaddr_indices : OptU64, mixin : OptU64,
                    ring_size : OptU64, unlock_time : OptU64, payment_id : OptStr,
                    do_not_relay : OptU64]
transfer_params(options) ==
    chain(chain(chain(chain(chain(chain(chain(chain(chain(chain(chain(chain(empty,
        once(<<"destinations", Arr>>)),
        once(<<"priority", Num(0)>>)),
        opt_pair(options.account_index, "account_index", Num(0))),
        opt_pair(options.subaddr_indices, "subaddr_indices", Arr)),
        opt_pair(options.mixin, "mixin", Num(0))),
        opt_pair(options.ring_size, "ring_size", Num(0))),
        opt_pair(options.unlock_time, "unlock_time", Num(0))),
        opt_pair(options.payment_id, "payment_id", Str)),
        opt_pair(options.do_not_relay, "do_not_relay", Bool(TRUE))),
        once(<<"get_tx_key", Bool(TRUE)>>)),
        once(<<"get_tx_hex", Bool(TRUE)>>)),
        once(<<"get_tx_metadata", Bool(TRUE)>>))
transfer(c, all_options) ==
    /\ calls[c].pc = "idle"
    /\ \E options \in all_options :
         call_send(c, "transfer", [options |-> options], "transfer",
              map(transfer_params(options)), "TransferData")

sign_transfer(c) ==
    /\ calls[c].pc = "idle"
    /\ call_send(c, "sign_transfer", << >>, "sign_transfer",
               map(chain(chain(empty, once(<<"unsigned_txset", Str>>)),
                         once(<<"export_raw", Bool(TRUE)>>))),
               "Rsp")

submit_transfer(c) ==
    /\ calls[c].pc = "idle"
    /\ call_send(c, "submit_transfer", << >>, "submit_transfer",
               map(chain(empty, once(<<"tx_data_hex", Str>>))), "Rsp")

\* GetTransfersSelector.  category_selector is a HashMap from category to
\* bool; order is the order in which the HashMap's iterator yields it.
NoRange == [some |-> FALSE, v |-> [start |-> Unbounded, end |-> Unbounded]]
OptHeightRanges == {NoRange} \cup {Some(r) : r \in HeightRanges}
CategorySelectors == {<< >>, [k \in {"in", "out"} |-> k = "in"]}
GetTransfersSelectors == [category_selector : CategorySelectors,
                          filter_by_height : OptHeightRanges,
                          account_index : OptU64,
                          subaddr_indices : OptU64]
IterOrders(S) == {s \in [1 .. Cardinality(S) -> S] : Range(s) = S}

get_transfers_params(selector, order, overflow_checks) ==
    chain(chain(chain(chain(empty,
        [i \in DOMAIN order |-> <<order[i], Bool(selector.category_selector[order[i]])>>]),
        IF selector.filter_by_height.some
        THEN height_filter(selector.filter_by_height.v, overflow_checks)
        ELSE empty),
        opt_pair(selector.account_index, "account_index", Num(0))),
        opt_pair(selector.subaddr_indices, "subaddr_indices", Arr))

get_transfers_panics(selector, overflow_checks) ==
    /\ selector.filter_by_height.some
    /\ start_bound_min(selector.filter_by_height.v.start, overflow_checks).panic

get_transfers(c, selectors) ==
    /\ calls[c].pc = "idle"
    /\ \E selector \in selectors :
         \E order \in IterOrders(DOMAIN selector.category_selector) :
           \E overflow_checks \in BOOLEAN :
             IF get_transfers_panics(selector, overflow_checks)
             THEN call_panic(c, "get_transfers", selector)
             ELSE call_send(c, "get_transfers", selector, "get_transfers",
                            map(get_transfers_params(selector, order, overflow_checks)),
                            "HashMap")

get_transfer(c, options) ==
    /\ calls[c].pc = "idle"
    /\ \E account_index \in options :
         call_send(c, "get_transfer", [account_index |-> account_index], "get_transfer_by_txid",
              map(chain(chain(empty, opt_pair(Some(0), "txid", Str)),
                        opt_pair(account_index, "account_index", Num(0)))),
              "get_transfer")

export_key_images(c) ==
    /\ calls[c].pc = "idle"
    /\ call_send(c, "export_key_images", << >>, "export_key_images", RpcParams_None, "Rsp")

import_key_images(c) ==
    /\ calls[c].pc = "idle"
    /\ call_send(c, "import_key_images", << >>, "import_key_images",
               map(chain(empty, once(<<"signed_key_images", Arr>>))),
               "KeyImageImportResponse")

check_tx_key(c) ==
    /\ calls[c].pc = "idle"
    /\ call_send(c, "check_tx_key", << >>, "check_tx_key",
               map(chain(chain(chain(empty, once(<<"txid", Str>>)),
                               once(<<"tx_key", Str>>)),
                         once(<<"address", Str>>))),
               "Rsp")

get_version(c) ==
    /\ calls[c].pc = "idle"
    /\ call_send(c, "get_version", << >>, "get_version", RpcParams_None, "Version")

(***************************************************************************)
(* The second half of a typed method: the exchange ends with http, and     *)
(* the method converts, decodes and returns.                               *)
(***************************************************************************)
method_ret(rsp, remote) ==
    CASE rsp = "get_transfer" -> get_transfer_ret(remote)
      [] rsp = "Version" -> get_version_ret(remote)
      [] OTHER -> request(rsp, remote)

Respond(c, https) ==
    /\ calls[c].pc = "inflight"
    /\ \E http \in https :
         calls' = [calls EXCEPT ![c].pc = "done", ![c].http = http,
                                ![c].ret = method_ret(calls[c].rsp, call_recv(http))]
    /\ UNCHANGED <<client, wire, codec, preserve_order>>

\* The exchange of a get_version call ends with a response that carries a
\* version.
Respond_version(c, https) ==
    /\ calls[c].fn = "get_version"
    /\ Respond(c, https)

\* The caller takes the returned value and is free to call again.
Return(c) ==
    /\ calls[c].pc = "done"
    /\ calls' = [calls EXCEPT ![c] = IdleCall]
    /\ UNCHANGED <<client, wire, codec, preserve_order>>

(***************************************************************************)
(* Spec: one caller, every typed method, every input of the input sets.    *)
(***************************************************************************)
Next ==
    \E c \in {1} :
        \/ get_block_count(c)
        \/ on_get_block_hash(c)
        \/ get_block_template(c)
        \/ submit_block(c)
        \/ get_block_header(c, GetBlockHeaderSelectors)
        \/ get_block_headers_range(c)
        \/ generate_blocks(c)
        \/ get_balance(c, OptU64)
        \/ get_address(c, OptU64)
        \/ get_address_index(c)
        \/ create_address(c, OptStr)
        \/ label_address(c)
        \/ get_accounts(c, OptStr)
        \/ get_payments(c)
        \/ get_bulk_payments(c)
        \/ query_view_key(c)
        \/ get_height(c)
        \/ transfer(c, TransferOptions)
        \/ sign_transfer(c)
        \/ submit_transfer(c)
        \/ get_transfers(c, GetTransfersSelectors)
        \/ get_transfer(c, OptU64)
        \/ export_key_images(c)
        \/ import_key_images(c)
        \/ check_tx_key(c)
        \/ get_version(c)
        \/ Respond(c, Https)
        \/ Respond_version(c, VersionHttps)
        \/ Return(c)

Spec == Init /\ [][Next]_vars

(***************************************************************************)
(* SpecConc: NumCallers callers share the client (it is Clone, and every   *)
(* method takes &self) and their calls interleave at the suspension point. *)
(* The inputs are a selection: a method without parameters, one with an    *)
(* absent and one with a present option, a range query, the lookup.        *)
(***************************************************************************)
ConcSelectors == {[category_selector |-> << >>,
                   filter_by_height |-> Some([start |-> Included(1), end |-> Excluded(U64_MAX)]),
                   account_index |-> None, subaddr_indices |-> None],
                  [category_selector |-> [k \in {"in", "out"} |-> k = "in"],
                   filter_by_height |-> NoRange,
                   account_index |-> None, subaddr_indices |-> None]}
ConcHttps == {ConnFail,
              Response(200, [parse |-> "success", result |-> [status |-> "OK", wellformed |-> TRUE], code |-> 0]),
              Response(200, [parse |-> "failure", result |-> NoResult, code |-> -8])}

NextConc ==
    \E c \in 1 .. NumCallers :
        \/ get_block_count(c)
        \/ get_height(c)
        \/ get_accounts(c, {None})
        \/ get_transfers(c, ConcSelectors)
        \/ get_transfer(c, {Some(0)})
        \/ Respond(c, ConcHttps)
        \/ Return(c)

SpecConc == InitConc /\ [][NextConc]_vars

(***************************************************************************)
(* SpecCodec: the TransferPriority codec on every priority and on every    *)
(* integer of WireInts: a priority is serialized, an integer is            *)
(* deserialized, a serialized priority is deserialized again.              *)
(***************************************************************************)
Serialize(p) ==
    /\ codec.op = "none"
    /\ codec' = [op |-> "serialized", p |-> p, u8 |-> TransferPriority_serialize(p),
                 out |-> DecodeFailed]
    /\ UNCHANGED <<client, calls, wire, preserve_order>>

Deserialize(v) ==
    /\ codec.op = "none"
    /\ codec' = [op |-> "deserialized", p |-> "-", u8 |-> v,
                 out |-> TransferPriority_deserialize(v)]
    /\ UNCHANGED <<client, calls, wire, preserve_order>>

RoundTrip ==
    /\ codec.op = "serialized"
    /\ codec' = [codec EXCEPT !.op = "roundtrip",
                              !.out = TransferPriority_deserialize(codec.u8)]
    /\ UNCHANGED <<client, calls, wire, preserve_order>>

NextCodec ==
    \/ \E p \in TransferPriorities : Serialize(p)
    \/ \E v \in WireInts : Deserialize(v)
    \/ RoundTrip

SpecCodec == Init /\ [][NextCodec]_vars

(***************************************************************************)
(* Properties.                                                             *)
(***************************************************************************)
\* The call of caller c has handed a payload to the transport.
Sent(c) == calls[c].pc \in {"inflight", "done"}
payload(c) == calls[c].method_call.params
has_key(c, k) == payload(c).kind = "Map" /\ k \in DOMAIN payload(c).map
RangeQuery(c) == calls[c].fn = "get_transfers" /\ calls[c].args.filter_by_height.some
range_of(c) == calls[c].args.filter_by_height.v

\* C1: in get_transfers, a lower bound Included(b) emits min_height = b - 1,
\* Excluded(b) emits min_height = b, Unbounded emits no min_height key.
C1_MinHeight ==
    \A c \in Callers :
        (calls[c].pc # "idle" /\ RangeQuery(c)) =>
            /\ Sent(c)
            /\ CASE range_of(c).start.kind = "Included" ->
                       /\ has_key(c, "min_height")
                       /\ payload(c).map["min_height"] = Num(range_of(c).start.b - 1)
                 [] range_of(c).start.kind = "Excluded" ->
                       /\ has_key(c, "min_height")
                       /\ payload(c).map["min_height"] = Num(range_of(c).start.b)
                 [] range_of(c).start.kind = "Unbounded" -> ~has_key(c, "min_height")

\* C2: in every payload get_transfers builds for a height range, an upper
\* bound Included(b) emits max_height = b, Excluded(b) emits
\* max_height = max(b - 1, 0), Unbounded emits no max_height key.
C2_MaxHeight ==
    \A c \in Callers :
        (Sent(c) /\ RangeQuery(c)) =>
            CASE range_of(c).end.kind = "Included" ->
                    /\ has_key(c, "max_height")
                    /\ payload(c).map["max_height"] = Num(range_of(c).end.b)
              [] range_of(c).end.kind = "Excluded" ->
                    /\ has_key(c, "max_height")
                    /\ payload(c).map["max_height"] =
                         Num(IF range_of(c).end.b - 1 > 0 THEN range_of(c).end.b - 1 ELSE 0)
              [] range_of(c).end.kind = "Unbounded" -> ~has_key(c, "max_height")

\* C2 witness: a range query with upper bound Excluded(0) was sent with max_height = 0.
C2_Witness ==
    \E c \in Callers :
        /\ Sent(c) /\ RangeQuery(c)
        /\ range_of(c).end = Excluded(0)
        /\ has_key(c, "max_height") /\ payload(c).map["max_height"] = Num(0)

\* C3: every payload get_transfers builds for a height range contains
\* filter_by_height = true, whatever the two bounds are.
C3_FilterFlag ==
    \A c \in Callers :
        (Sent(c) /\ RangeQuery(c)) =>
            /\ has_key(c, "filter_by_height")
            /\ payload(c).map["filter_by_height"] = Bool(TRUE)

\* C3 witness: the fully unbounded range was sent: the flag without either bound.
C3_Witness ==
    \E c \in Callers :
        /\ Sent(c) /\ RangeQuery(c)
        /\ range_of(c) = [start |-> Unbounded, end |-> Unbounded]
        /\ has_key(c, "filter_by_height")
        /\ ~has_key(c, "min_height") /\ ~has_key(c, "max_height")

\* The exchange of a finished call failed: no connection, no JSON-RPC
\* response, or a JSON-RPC error.
RemoteFailed(c) == calls[c].http.kind = "ConnFail" \/ calls[c].http.body.parse # "success"
NotFound(c) ==
    /\ calls[c].http.kind = "Response"
    /\ calls[c].http.body.parse = "failure"
    /\ calls[c].http.body.code = -8

\* C4: a failed remote call becomes a successful absent result exactly when
\* the method is get_transfer and the node reported RPC error -8; every
\* other failed call, of any method, returns a failure.
C4_NotFoundOnly ==
    \A c \in Callers :
        calls[c].pc = "done" =>
            /\ RemoteFailed(c) =>
                 (calls[c].ret.ok <=> (calls[c].fn = "get_transfer" /\ NotFound(c)))
            /\ (calls[c].ret = Ok("absent")) <=> (calls[c].fn = "get_transfer" /\ NotFound(c))

\* C4 witness: get_transfer met RPC error -8 and returned the absent result.
C4_Witness ==
    \E c \in Callers :
        /\ calls[c].pc = "done" /\ calls[c].fn = "get_transfer" /\ NotFound(c)
        /\ calls[c].ret = Ok("absent")

\* The optional parameters of the call of c: the key of each, and whether
\* the caller gave it.
OptionalKeys(c) ==
    CASE calls[c].fn = "get_address" -> {<<"address_index", calls[c].args.addresses.some>>}
      [] calls[c].fn = "create_address" -> {<<"label", calls[c].args.label.some>>}
      [] calls[c].fn = "get_accounts" -> {<<"tag", calls[c].args.tag.some>>}
      [] calls[c].fn = "get_transfer" -> {<<"account_index", calls[c].args.account_index.some>>}
      [] calls[c].fn = "transfer" ->
            {<<k, calls[c].args.options[k].some>> : k \in DOMAIN calls[c].args.options}
      [] calls[c].fn = "get_transfers" ->
            {<<"filter_by_height", calls[c].args.filter_by_height.some>>,
             <<"account_index", calls[c].args.account_index.some>>,
             <<"subaddr_indices", calls[c].args.subaddr_indices.some>>}
      [] OTHER -> {}

\* C5: a payload has a key (or positional element) for each present option
\* and none for each absent one, and no null value.
C5_AbsentOmitted ==
    \A c \in Callers :
        Sent(c) =>
            /\ \A o \in OptionalKeys(c) : has_key(c, o[1]) <=> o[2]
            /\ calls[c].fn = "get_balance" =>
                 Len(payload(c).array) = (IF calls[c].args.addresses.some THEN 2 ELSE 1)
            /\ \A k \in DOMAIN payload(c).map : payload(c).map[k] # Null
            /\ \A i \in DOMAIN payload(c).array : payload(c).array[i] # Null

\* C5 witness: a transfer was sent with one option present and another absent.
C5_Witness ==
    \E c \in Callers :
        /\ Sent(c) /\ calls[c].fn = "transfer"
        /\ calls[c].args.options.account_index.some
        /\ ~calls[c].args.options.mixin.some
        /\ has_key(c, "account_index") /\ ~has_key(c, "mixin")

\* C6: a call whose parameter set is empty sends the none variant, never an
\* empty array or an empty map.
C6_EmptyIsNone ==
    \A c \in Callers :
        (Sent(c) /\ calls[c].params.items = << >>) => payload(c).kind = "None"

\* C7: every call sends an identifier generated for it alone, no two calls
\* (in flight or completed) carry the same identifier, and no call changes
\* a field of the shared client.
C7_FreshIds ==
    /\ \A i, j \in DOMAIN wire : i # j => wire[i] # wire[j]
    /\ \A c \in Callers : Sent(c) => calls[c].method_call.id \in Range(wire)
    /\ \A c, d \in Callers :
         (c # d /\ Sent(c) /\ Sent(d)) => calls[c].method_call.id # calls[d].method_call.id
    /\ client = RpcClient_new

\* C7 witness: two calls are in flight at once, with different identifiers.
C7_Witness ==
    \E c, d \in Callers :
        /\ c # d
        /\ calls[c].pc = "inflight" /\ calls[d].pc = "inflight"
        /\ calls[c].method_call.id # calls[d].method_call.id

\* C8: every invocation of a typed method performs exactly one outbound
\* round trip, however it ends.
C8_OneRoundTrip ==
    \A c \in Callers : calls[c].pc # "idle" => calls[c].trips = 1

\* The exchange of a finished call failed below the JSON-RPC envelope.
BelowEnvelope(c) ==
    \/ calls[c].http.kind = "ConnFail"
    \/ calls[c].http.status # 200
    \/ calls[c].http.body.parse = "garbage"

\* C9: an exchange that fails below the JSON-RPC envelope (no connection, a
\* non-success HTTP status, a body that is no JSON-RPC response) returns a
\* TransportError, never Ok, an RpcError or a DecodeError.
C9_TransportError ==
    \A c \in Callers :
        (calls[c].pc = "done" /\ BelowEnvelope(c)) => calls[c].ret = Err("TransportError", 0)

DaemonMethods == {"get_block_count", "get_block_template", "get_block_header",
                  "get_block_headers_range", "generate_blocks"}

\* C10: no typed daemon method returns a value taken from a response whose
\* status differs from the success token: such a response is a failure.
C10_StatusChecked ==
    \A c \in Callers :
        (/\ calls[c].pc = "done"
         /\ calls[c].fn \in DaemonMethods
         /\ calls[c].http.kind = "Response"
         /\ calls[c].http.body.parse = "success"
         /\ calls[c].http.body.result.status # "OK")
            => ~calls[c].ret.ok

\* C11: each of the four priorities is encoded as an integer in 0..3 and
\* decoding that integer gives the priority back; decoding any other
\* unsigned 8-bit integer fails.
C11_PriorityCodec ==
    /\ codec.op \in {"serialized", "roundtrip"} => codec.u8 \in 0 .. 3
    /\ codec.op = "roundtrip" => codec.out = DecodedPriority(codec.p)
    /\ (codec.op = "deserialized" /\ codec.u8 \in 0 .. U8_MAX /\ codec.u8 \notin 0 .. 3)
         => ~codec.out.ok

\* C11 witness: Priority was encoded as 3 and decoded back.
C11_Witness ==
    /\ codec.op = "roundtrip"
    /\ codec.p = "Priority" /\ codec.u8 = 3
    /\ codec.out = DecodedPriority("Priority")

\* C12: the keys of a named payload are unique and in the order in which
\* the call site yielded them, and two calls of the same method with equal
\* arguments send identical payloads.
C12_KeyOrder ==
    /\ \A c \in Callers :
         (Sent(c) /\ calls[c].params.kind = "Map") =>
             calls[c].method_call.keys = Yielded(calls[c].params.items)
    /\ \A c, d \in Callers :
         (Sent(c) /\ Sent(d) /\ calls[c].fn = calls[d].fn /\ calls[c].args = calls[d].args) =>
             /\ payload(c) = payload(d)
             /\ calls[c].method_call.keys = calls[d].method_call.keys

\* RangeBounds::contains: the heights a range holds.
contains(r, h) ==
    /\ CASE r.start.kind = "Included" -> r.start.b <= h
         [] r.start.kind = "Excluded" -> r.start.b < h
         [] r.start.kind = "Unbounded" -> TRUE
    /\ CASE r.end.kind = "Included" -> h <= r.end.b
         [] r.end.kind = "Excluded" -> h < r.end.b
         [] r.end.kind = "Unbounded" -> TRUE

\* The heights the node selects from the bounds of the payload of caller c:
\* above min_height when the key is there, up to max_height when it is.
NodeSelects(c, h) ==
    /\ has_key(c, "min_height") => h > payload(c).map["min_height"].n
    /\ has_key(c, "max_height") => h <= payload(c).map["max_height"].n

\* C13: for every height range given to get_transfers, the heights the node
\* selects from the emitted min_height and max_height are exactly the heights
\* the range contains, at the edges Included(0), Excluded(0) and for empty
\* ranges too.
C13_HeightsSelected ==
    \A c \in Callers :
        (Sent(c) /\ RangeQuery(c)) =>
            \A h \in U64 : NodeSelects(c, h) <=> contains(range_of(c), h)

\* The node answered the get_version call of caller c with a version.
VersionReturned(c) ==
    /\ calls[c].pc = "done" /\ calls[c].fn = "get_version"
    /\ calls[c].http.kind = "Response"
    /\ calls[c].http.body.parse = "success"
    /\ calls[c].http.body.result.wellformed
version_of(c) == calls[c].http.body.result.version

\* C14: for every u32 version v the node returns, get_version returns
\* (major, minor) with major = v div 2^h and minor = v mod 2^h (h the bits of
\* a half, 16 in the source), so major * 2^h + minor = v; both fit a half and
\* the conversion never fails.
C14_VersionSplit ==
    \A c \in Callers :
        VersionReturned(c) =>
            /\ calls[c].ret.ok
            /\ calls[c].ret.major = version_of(c) \div 2 ^ VersionHalf
            /\ calls[c].ret.minor = version_of(c) % 2 ^ VersionHalf
            /\ calls[c].ret.major * 2 ^ VersionHalf + calls[c].ret.minor = version_of(c)
            /\ calls[c].ret.major \in 0 .. U16_MAX
            /\ calls[c].ret.minor \in 0 .. U16_MAX
C14_Witness ==
    \E c \in Callers :
        /\ VersionReturned(c)
        /\ version_of(c) = U32_MAX - 1
        /\ calls[c].ret = Ok_version(U16_MAX, U16_MAX - 1)

====
